---- MODULE Spec2Model ----
(***************************************************************************)
(* TechTrends (app.py): the DatabaseWrapper (scoped connections and the    *)
(* statement counter), the post repository (get_post, get_post_count) and  *)
(* the request handlers, served by worker threads that may interleave.     *)
(***************************************************************************)
EXTENDS Integers, Sequences, FiniteSets, TLC

\* Worker threads of the server that handle requests concurrently.
NumThreads == 2
\* Requests accepted in one run (caps the counter, the store and the history).
MaxRequests == 3

Threads == 1..NumThreads
\* The ids asked of /<post_id>: those of the first two posts created
PostIds == {1, 2}
Titles == {"", "Hello"}
Contents == {"World"}

VARIABLES
    db_connection_count,  \* DatabaseWrapper.db_connection_count
    canOpen,              \* whether sqlite3.connect('database.db') succeeds
    tableExists,          \* whether database.db holds the posts table
    posts,                \* committed rows of posts, in id order
    writer,               \* thread whose connection holds the write lock, or 0
    connections,          \* the connections that are open
    requests,             \* number of requests accepted so far
    executed,             \* number of statements handed to conn.execute so far
    pc,                   \* per thread: position in its handler
    req,                  \* per thread: the request in progress
    conn,                 \* per thread: local `conn`, id of a connection
    tmp,                  \* per thread: counter value loaded by `+= 1`
    result,               \* per thread: what the statement produced
    moments,              \* per thread: what was true during its /metrics request
    last                  \* the request just answered, with its response

vars == <<db_connection_count, canOpen, tableExists, posts, writer, connections,
          requests, executed, pc, req, conn, tmp, result, moments, last>>

----------------------------------------------------------------------------
\* Values

NoRequest == [route |-> "none", method |-> "GET", title |-> "", content |-> "", post_id |-> 0]
NoResult == [kind |-> "none"]
\* `conn` before the with-block binds it
NoConnection == <<0, 0>>
NoResponse == [kind |-> "none"]

Row(id, title, content) == [id |-> id, title |-> title, content |-> content]

\* The rows of posts when the process starts: the table is empty (or absent)
InitialStores == {<<>>}

Render(view, status, data) == [kind |-> "render", status |-> status, view |-> view, data |-> data]
Redirect(target) == [kind |-> "redirect", status |-> 302, view |-> target]
Json(status, payload) == [kind |-> "json", status |-> status, payload |-> payload]
\* An exception that leaves the handler uncaught.
Fault(error) == [kind |-> "fault", status |-> 500, error |-> error]
\* A request and the response it got
Answered(r, response, seen) == [req |-> r, resp |-> response, moments |-> seen]
\* No request was answered in the last step
NoAnswer == Answered(NoRequest, NoResponse, {})

----------------------------------------------------------------------------
\* Statements, as sqlite runs them against the committed rows

\* SELECT * FROM posts
SelectAll(rows) == [kind |-> "rows", val |-> rows]

\* The lookup without its WHERE clause
SelectFirst(rows, id) ==
    IF rows # <<>> THEN [kind |-> "row", val |-> rows[1]] ELSE [kind |-> "None"]

\* SELECT * FROM posts WHERE id = ?  followed by fetchone()
SelectById(rows, id) ==
    IF \E i \in 1..Len(rows) : rows[i].id = id
    THEN [kind |-> "row", val |-> rows[CHOOSE i \in 1..Len(rows) : rows[i].id = id]]
    ELSE [kind |-> "None"]

\* SELECT COUNT(*) FROM posts  followed by fetchone()[0]
SelectCount(rows) == [kind |-> "count", val |-> Len(rows)]

\* SELECT 1 FROM posts LIMIT 1  (the cursor is not read)
SelectOne(rows) == [kind |-> "cursor"]

\* INSERT INTO posts (title, content) VALUES (?, ?): id is AUTOINCREMENT
InsertRow(rows, title, content) ==
    Row((IF rows = <<>> THEN 0 ELSE rows[Len(rows)].id) + 1, title, content)

\* A statement that raised
Raised(error) == [kind |-> "error", val |-> error]

Statement(route, r, rows) ==
    CASE route = "index" -> SelectAll(rows)
      [] route = "post" -> SelectById(rows, r.post_id)
      [] route = "metrics" -> SelectCount(rows)
      [] route = "healthz" -> SelectOne(rows)
      [] OTHER -> NoResult

----------------------------------------------------------------------------
Init ==
    /\ db_connection_count = 0
    /\ canOpen \in BOOLEAN
    /\ tableExists \in BOOLEAN
    /\ posts \in (IF tableExists THEN InitialStores ELSE {<<>>})
    /\ writer = 0
    /\ connections = {}
    /\ requests = 0
    /\ executed = 0
    /\ pc = [t \in Threads |-> "idle"]
    /\ req = [t \in Threads |-> NoRequest]
    /\ conn = [t \in Threads |-> NoConnection]
    /\ tmp = [t \in Threads |-> 0]
    /\ result = [t \in Threads |-> NoResult]
    /\ moments = [t \in Threads |-> {}]
    /\ last = NoAnswer

----------------------------------------------------------------------------
\* Connections

\* sqlite3.connect: a new connection, opened by the request that thread
\* `owner` is handling; its identity is one no open connection has
Connect(cs, owner) ==
    [id |-> <<owner, Cardinality({c \in cs : c.owner = owner}) + 1>>,
     owner |-> owner, users |-> {}, pending |-> <<>>]

\* The open connection with this id
Connection(cs, id) == CHOOSE c \in cs : c.id = id

\* A connection used by the request thread `user` is handling (execute, commit)
Used(cs, id, user, pending) ==
    (cs \ {Connection(cs, id)}) \cup
        {[Connection(cs, id) EXCEPT !.users = @ \cup {user}, !.pending = pending]}

\* A close that runs after the block only, not in a finally
CloseOnReturn(cs, id, how) ==
    IF how = "return" THEN cs \ {Connection(cs, id)} ELSE cs

\* finally: connection.close(), on leaving the with-block by `how`
\* ("return" or "error"); closing drops what was not committed
CloseOnExit(cs, id, how) == cs \ {Connection(cs, id)}

\* What leaves get_db_connection when sqlite3.connect raised `error`: the
\* finally block runs connection.close() with `connection` never bound, and
\* the UnboundLocalError it raises is the exception that propagates
OpenFailure(error) == "UnboundLocalError"

\* A with-block that never commits
NoCommit(rows, pending) == rows

\* conn.commit(): the pending rows become committed rows
Commit(rows, pending) == rows \o pending

----------------------------------------------------------------------------
\* What each handler answers

\* A healthz without its except clause
PropagateUncaught(route, error) == Fault(error)

\* A handler left by an exception: healthz catches sqlite3.OperationalError
Propagate(route, error) ==
    IF route = "healthz" /\ error = "OperationalError"
    THEN Json(500, [result |-> "ERROR - unhealthy"])
    ELSE Fault(error)

\* A handler returning from inside (or right after) its with-block
Return(route, res) ==
    CASE route = "index" -> Render("index.html", 200, res.val)
      [] route = "post" ->
            IF res.kind = "None"
            THEN Render("404.html", 404, <<>>)
            ELSE Render("post.html", 200, res.val)
      [] route = "create" -> Redirect("index")
      [] route = "healthz" -> Json(200, [result |-> "OK - healthy"])
      [] OTHER -> NoResponse

\* A metrics endpoint that turns unhealthy once the counter passes a threshold
MetricsThreshold(count, post_count) ==
    Json(IF count > 1 THEN 500 ELSE 200,
         [db_connection_count |-> count, post_count |-> post_count])

\* metrics_endpoint's response
MetricsPayload(count, post_count) ==
    Json(200, [db_connection_count |-> count, post_count |-> post_count])

\* A validation that lets every title through
TitleUnchecked(title) == FALSE

\* create's validation: `if not title`
TitleMissing(title) == title = ""

----------------------------------------------------------------------------
\* Steps of a request

\* A request reaches its handler, on the first worker thread that is free
\* (the threads are interchangeable)
Begin(t) ==
    /\ pc[t] = "idle"
    /\ \A u \in 1..(t - 1) : pc[u] # "idle"
    /\ requests < MaxRequests
    /\ requests' = requests + 1
    /\ UNCHANGED <<db_connection_count, canOpen, tableExists, posts, writer,
                   executed>>

\* The handler is left with this response
Finish(t, r, response) ==
    /\ pc' = [pc EXCEPT ![t] = "idle"]
    /\ last' = Answered(r, response, moments[t])
    /\ req' = [req EXCEPT ![t] = NoRequest]
    /\ conn' = [conn EXCEPT ![t] = NoConnection]
    /\ tmp' = [tmp EXCEPT ![t] = 0]
    /\ result' = [result EXCEPT ![t] = NoResult]

\* with db.get_db_connection() as conn: entering the block
get_db_connection(t, r) ==
    IF canOpen
    THEN /\ connections' = connections \cup {Connect(connections, t)}
         /\ conn' = [conn EXCEPT ![t] = Connect(connections, t).id]
         /\ req' = [req EXCEPT ![t] = r]
         /\ pc' = [pc EXCEPT ![t] = "load"]
         /\ last' = NoAnswer
         /\ UNCHANGED <<tmp, result>>
    ELSE /\ Finish(t, r, Propagate(r.route, OpenFailure("OperationalError")))
         /\ UNCHANGED connections

\* GET /
index(t) ==
    /\ Begin(t)
    /\ get_db_connection(t, [NoRequest EXCEPT !.route = "index"])

\* GET /<post_id>
post(t) ==
    \E id \in PostIds :
        /\ Begin(t)
        /\ get_db_connection(t, [NoRequest EXCEPT !.route = "post", !.post_id = id])

\* GET /about
about(t) ==
    /\ Begin(t)
    /\ Finish(t, [NoRequest EXCEPT !.route = "about"],
              Render("about.html", 200, <<>>))
    /\ UNCHANGED connections

\* The form sent to /create
Form(m, title, content) ==
    [NoRequest EXCEPT !.route = "create", !.method = m,
                      !.title = title, !.content = content]

\* GET or POST /create, up to the with-block or the final render_template
create(t) ==
    \E m \in {"GET", "POST"}, title \in Titles, content \in Contents :
        /\ m = "GET" => (title = "" /\ content = "World")
        /\ Begin(t)
        /\ IF m = "POST" /\ ~TitleMissing(title)
           THEN get_db_connection(t, Form(m, title, content))
           ELSE /\ Finish(t, Form(m, title, content),
                          Render("create.html", 200,
                                 IF m = "POST"
                                 THEN <<"Title is required!">> ELSE <<>>))
                /\ UNCHANGED connections

\* GET /healthz
healthz(t) ==
    /\ Begin(t)
    /\ get_db_connection(t, [NoRequest EXCEPT !.route = "healthz"])

\* GET /metrics
metrics_endpoint(t) ==
    /\ Begin(t)
    /\ get_db_connection(t, [NoRequest EXCEPT !.route = "metrics"])

\* execute: self.db_connection_count += 1, the read
execute_load(t) ==
    /\ pc[t] = "load"
    /\ tmp' = [tmp EXCEPT ![t] = db_connection_count]
    /\ pc' = [pc EXCEPT ![t] = "store"]
    /\ last' = NoAnswer
    /\ UNCHANGED <<db_connection_count, canOpen, tableExists, posts, writer,
                   connections, requests, executed, req, conn, result>>

\* An execute that leaves the counter alone
NotIncremented(n) == n

\* The counter after `+= 1` on the value read
Incremented(n) == n + 1

\* execute: self.db_connection_count += 1, the write
execute_store(t) ==
    /\ pc[t] = "store"
    /\ db_connection_count' = Incremented(tmp[t])
    /\ pc' = [pc EXCEPT ![t] = "statement"]
    /\ last' = NoAnswer
    /\ UNCHANGED <<canOpen, tableExists, posts, writer, connections, requests,
                   executed, req, conn, tmp, result>>

\* Leaving the with-block: the finally closes the connection, then the
\* handler returns, or the exception goes on to the handler's except clause
LeaveBlock(t, cs, res) ==
    /\ connections' = CloseOnExit(cs, conn[t],
                         IF res.kind = "error" THEN "error" ELSE "return")
    /\ IF res.kind = "error"
       THEN Finish(t, req[t], Propagate(req[t].route, res.val))
       ELSE IF req[t].route = "metrics"
       THEN /\ pc' = [pc EXCEPT ![t] = "respond"]
            /\ result' = [result EXCEPT ![t] = res]
            /\ conn' = [conn EXCEPT ![t] = NoConnection]
            /\ last' = NoAnswer
            /\ UNCHANGED <<req, tmp>>
       ELSE Finish(t, req[t], Return(req[t].route, res))

\* execute: return conn.execute(sql, params); for a query, the fetch and
\* the way out of the with-block follow. An INSERT waits while another
\* connection holds the write lock (sqlite's busy timeout is not modelled)
conn_execute(t) ==
    /\ pc[t] = "statement"
    /\ (tableExists /\ req[t].route = "create") => writer = 0
    /\ executed' = executed + 1
    /\ IF ~tableExists
       THEN /\ LeaveBlock(t, Used(connections, conn[t], t, <<>>),
                          Raised("OperationalError"))
            /\ UNCHANGED writer
       ELSE IF req[t].route = "create"
       THEN /\ connections' = Used(connections, conn[t], t,
                   <<InsertRow(posts, req[t].title, req[t].content)>>)
            /\ writer' = t
            /\ pc' = [pc EXCEPT ![t] = "commit"]
            /\ last' = NoAnswer
            /\ UNCHANGED <<req, conn, tmp, result>>
       ELSE /\ LeaveBlock(t, Used(connections, conn[t], t, <<>>),
                          Statement(req[t].route, req[t], posts))
            /\ UNCHANGED writer
    /\ UNCHANGED <<db_connection_count, canOpen, tableExists, posts, requests>>

\* create: conn.commit(), then the redirect out of the with-block
conn_commit(t) ==
    /\ pc[t] = "commit"
    /\ posts' = Commit(posts, Connection(connections, conn[t]).pending)
    /\ writer' = 0
    /\ LeaveBlock(t, Used(connections, conn[t], t, <<>>), [kind |-> "cursor"])
    /\ UNCHANGED <<db_connection_count, canOpen, tableExists, requests, executed>>

\* metrics_endpoint after get_post_count(): reads the counter, builds the payload
metrics_response(t) ==
    /\ pc[t] = "respond"
    /\ Finish(t, req[t], MetricsPayload(db_connection_count, result[t].val))
    /\ UNCHANGED <<db_connection_count, canOpen, tableExists, posts, writer,
                   connections, requests, executed>>

\* The moments of a /metrics request, one for every state from its start to
\* its response: the number of rows in posts and the value of the counter
Observe ==
    moments' = [t \in Threads |->
        IF pc'[t] = "idle" \/ req'[t].route # "metrics" THEN {}
        ELSE (IF pc[t] = "idle" THEN {} ELSE moments[t])
                 \cup {<<Len(posts'), db_connection_count'>>}]

\* A request is accepted
Accept(t) ==
    \/ index(t)
    \/ post(t)
    \/ about(t)
    \/ create(t)
    \/ healthz(t)
    \/ metrics_endpoint(t)

\* A request in progress takes its next step
Step(t) ==
    \/ execute_load(t)
    \/ execute_store(t)
    \/ conn_execute(t)
    \/ conn_commit(t)
    \/ metrics_response(t)

\* No request is in progress
Quiet == \A t \in Threads : pc[t] = "idle"

\* Requests handled by concurrent worker threads
Next == (\E t \in Threads : Accept(t) \/ Step(t)) /\ Observe

Spec == Init /\ [][Next]_vars

\* Requests handled one after the other
SeqNext == (\E t \in Threads : (Quiet /\ Accept(t)) \/ Step(t)) /\ Observe

SeqSpec == Init /\ [][SeqNext]_vars

----------------------------------------------------------------------------
\* Properties

\* A request was answered in the step just taken
Answering == last' # NoAnswer

\* The store can be opened and holds the posts table
StoreReady == canOpen /\ tableExists

\* The handlers that open a connection
UsesStore(r) ==
    \/ r.route \in {"index", "post", "healthz", "metrics"}
    \/ r.route = "create" /\ r.method = "POST" /\ r.title # ""

\* C1: with requests handled one after the other, the counter equals the
\* number of statements handed to conn.execute, plus the execute call that
\* has raised the counter and not yet run its statement; so between
\* requests it is exactly the number of statements executed, whichever
\* handler (healthz and metrics included) issued them.
C1_CounterCountsStatements ==
    db_connection_count = executed + Cardinality({t \in Threads : pc[t] = "statement"})

\* Three requests, healthz and metrics among them, each ran one statement
C1_Witness ==
    /\ Quiet
    /\ last.req.route = "metrics"
    /\ last.resp.kind = "json"
    /\ last.resp.payload.db_connection_count = 3
    /\ executed = 3

\* C2: whatever the interleaving of execute calls, no increment is lost:
\* once no request is in progress the counter equals the number of
\* statements executed.
C2_NoLostIncrement ==
    Quiet => db_connection_count = executed

\* C3: every open connection belongs to the one request that opened it and
\* that is still inside its with-block, and only that request has used it;
\* a thread that has left the block (normally, by a return inside it, or by
\* an error of the statement) holds no open connection.
C3_ConnectionsScoped ==
    /\ \A c \in connections :
          /\ pc[c.owner] \in {"load", "store", "statement", "commit"}
          /\ conn[c.owner] = c.id
          /\ c.users \subseteq {c.owner}
    /\ \A c, d \in connections : c.id = d.id => c = d
    /\ \A t \in Threads :
          pc[t] \in {"idle", "respond"} => conn[t] = NoConnection

\* A request whose statement raised has been answered, another request is
\* inside its with-block, and only that one holds a connection
C3_Witness ==
    /\ last.req.route = "index"
    /\ last.resp = Fault("OperationalError")
    /\ Cardinality(connections) = 1
    /\ \E t \in Threads : pc[t] = "statement"

\* C4: with the store opened, /healthz answers 200 and OK - healthy when the
\* posts table exists, and 500 and ERROR - unhealthy when it is absent; the
\* thread that answered unhealthy is idle again and takes later requests.
C4_Healthz ==
    (last.req.route = "healthz" /\ canOpen) =>
        /\ tableExists => last.resp = Json(200, [result |-> "OK - healthy"])
        /\ ~tableExists => last.resp = Json(500, [result |-> "ERROR - unhealthy"])
        /\ \E t \in Threads : pc[t] = "idle"

\* The second health check of a run on a store without the posts table
C4_Witness ==
    /\ ~tableExists
    /\ last.req.route = "healthz"
    /\ last.resp = Json(500, [result |-> "ERROR - unhealthy"])
    /\ requests >= 2
    /\ executed >= 2

\* C5 as stated: /metrics answers 200 with both values in every state of
\* the store.
C5_MetricsAlwaysHealthy ==
    last.req.route = "metrics" =>
        /\ last.resp.kind = "json"
        /\ last.resp.status = 200

\* C5 amended: when the store opens and holds the posts table, /metrics
\* answers 200 with db_connection_count and post_count whatever the counter
\* value; otherwise the error of get_post_count leaves the handler uncaught.
C5_MetricsHealthyOnReadyStore ==
    last.req.route = "metrics" =>
        IF StoreReady
        THEN /\ last.resp.kind = "json"
             /\ last.resp.status = 200
             /\ last.resp.payload.db_connection_count \in 1..MaxRequests
             /\ last.resp.payload.post_count \in 0..(MaxRequests + 1)
        ELSE last.resp.kind = "fault"

\* /metrics answered after three statements
C5_Witness ==
    /\ last.req.route = "metrics"
    /\ last.resp.kind = "json"
    /\ last.resp.status = 200
    /\ last.resp.payload.db_connection_count = 3

\* C6: the two values /metrics reports were both true at one moment of the
\* request, other requests running or not: at that moment posts held
\* post_count rows and the counter of executed statements stood at
\* db_connection_count.
C6_MetricsSnapshot ==
    (last.req.route = "metrics" /\ last.resp.kind = "json") =>
        <<last.resp.payload.post_count, last.resp.payload.db_connection_count>>
            \in last.moments

\* C7: a POST to /create with an empty title is answered with the form and
\* the message 'Title is required!', not a redirect, and the step leaves the
\* rows of posts, the connections and the statement count as they were.
C7_EmptyTitleRejected ==
    [][(Answering /\ last'.req.route = "create" /\ last'.req.method = "POST"
            /\ last'.req.title = "") =>
        /\ last'.resp = Render("create.html", 200, <<"Title is required!">>)
        /\ posts' = posts
        /\ SelectCount(posts').val = SelectCount(posts).val
        /\ connections' = connections
        /\ executed' = executed
        /\ db_connection_count' = db_connection_count]_vars

\* An empty title was just rejected on a store that holds a post
C7_Witness ==
    /\ last.req.route = "create"
    /\ last.req.method = "POST"
    /\ last.req.title = ""
    /\ last.resp.kind = "render"
    /\ last.resp.view = "create.html"
    /\ Len(posts) = 1

\* C8: on a store that opens and holds the posts table, a POST to /create
\* with a title is answered with a redirect to the index, and the step that
\* answers it has committed exactly one more row, with that title and
\* content and an id no other row has, and has closed the connection;
\* the count query and the index query then see it.
C8_CreateInserts ==
    [][(Answering /\ last'.req.route = "create" /\ last'.req.method = "POST"
            /\ last'.req.title # "" /\ StoreReady) =>
        /\ last'.resp = Redirect("index")
        /\ Len(posts') = Len(posts) + 1
        /\ \A i \in 1..Len(posts) :
              /\ posts'[i] = posts[i]
              /\ posts[i].id # posts'[Len(posts')].id
        /\ posts'[Len(posts')].title = last'.req.title
        /\ posts'[Len(posts')].content = last'.req.content
        /\ \A c \in connections' : c \in connections /\ c.pending = <<>>
        /\ SelectCount(posts').val = SelectCount(posts).val + 1
        /\ SelectCount(posts').val = Len(posts')
        /\ \E i \in 1..Len(SelectAll(posts').val) :
              SelectAll(posts').val[i].title = last'.req.title]_vars

\* A second post was just created and the redirect sent
C8_Witness ==
    /\ last.req.route = "create"
    /\ last.resp = Redirect("index")
    /\ Len(posts) = 2
    /\ posts[2] = Row(2, "Hello", "World")
    /\ connections = {}

\* C9: on a store that opens and holds the posts table, /<post_id> answers
\* with the detail view of the row with that id when posts holds one, and
\* with status 404 and the not-found view when it holds none.
C9_ViewPost ==
    (last.req.route = "post" /\ StoreReady) =>
        IF \E i \in 1..Len(posts) : posts[i].id = last.req.post_id
        THEN /\ last.resp.kind = "render"
             /\ last.resp.view = "post.html"
             /\ last.resp.status = 200
             /\ last.resp.data.id = last.req.post_id
             /\ \E i \in 1..Len(posts) : posts[i] = last.resp.data
        ELSE last.resp = Render("404.html", 404, <<>>)

\* Post 2 was asked for while the store held post 1 only
C9_Witness ==
    /\ last.req.route = "post"
    /\ last.req.post_id = 2
    /\ Len(posts) = 1
    /\ last.resp = Render("404.html", 404, <<>>)

\* C10: when sqlite3.connect fails, that failure (an OperationalError) is
\* what leaves the handler, uncaught: it is not replaced by another error
\* and not turned into a response, by healthz either.
C10_OpenFailurePropagates ==
    (last # NoAnswer /\ UsesStore(last.req) /\ ~canOpen) =>
        last.resp = Fault("OperationalError")

====
